---- MODULE Spec2Model ----
(***************************************************************************)
(* A model of student_dashboard.py: one Streamlit script that reads        *)
(* students_data.csv, cleans it, reads the sidebar widgets, filters the    *)
(* table, shows metrics, a name search, two buttons and three charts.      *)
(* The script runs top to bottom; every widget event runs it again.        *)
(*                                                                         *)
(* Strings are sequences of one-character strings, so that parsing, case   *)
(* folding and pattern matching are computed and not assumed.  Numbers are *)
(* held in halves (the value 1.5 is the integer 3), so that fractional     *)
(* marks and Python's int() are computed exactly.                          *)
(***************************************************************************)
EXTENDS Integers, Sequences, FiniteSets, TLC

VARIABLES
    file,             \* students_data.csv: [exists, cols, rows]; rows hold cell text
    ui,               \* what the browser's widgets hold (empty set: never touched)
    pc,               \* the statement group the script run is at
    df,               \* [cols, rows]: the dataframe df
    selected_course,  \* line 47
    selected_cities,  \* line 51
    marks_filter,     \* lines 57/59, in halves
    gender_option,    \* lines 63/65
    filtered_df,      \* lines 68-79: sequence of rows
    msgs,             \* st.error / st.warning / st.success / st.info shown in the run
    metrics,          \* the three st.metric values (empty set: not shown)
    result,           \* line 116 (empty set: no search performed)
    shown,            \* tables shown by the buttons: name -> rows
    charts,           \* charts drawn
    ran               \* statement groups executed in this run

vars == <<file, ui, pc, df, selected_course, selected_cities, marks_filter,
          gender_option, filtered_df, msgs, metrics, result, shown, charts, ran>>

-----------------------------------------------------------------------------
(* Bounds of the model *)

MaxRows == 2
MaxQueryLen == 2

-----------------------------------------------------------------------------
(* Strings *)

S_All == <<"A", "l", "l">>
S_Unknown == <<"U", "n", "k", "n", "o", "w", "n">>
S_Male == <<"M", "a", "l", "e">>
S_Female == <<"F", "e", "m", "a", "l", "e">>

StringCols == {"Name", "Course", "City", "Gender"}
NumericCols == {"Marks", "Attendance"}
ExpectedCols == StringCols \cup NumericCols

(* Cells of a dataframe: NaN, a string, or a number (in halves). *)
NaN == [kind |-> "nan", txt |-> <<>>, num |-> 0]
StrCell(s) == [kind |-> "str", txt |-> s, num |-> 0]
NumCell(n) == [kind |-> "num", txt |-> <<>>, num |-> n]

-----------------------------------------------------------------------------
(* pd.read_csv: an empty cell is NaN, any other cell keeps its text. *)

ReadCell(t) == IF t = <<>> THEN NaN ELSE StrCell(t)

ReadCsv(f) ==
    [cols |-> f.cols,
     rows |-> [i \in 1..Len(f.rows) |-> [c \in f.cols |-> ReadCell(f.rows[i][c])]]]

(* df.fillna({...}): NaN in a listed column that exists becomes the default. *)
FillDefault(c) == IF c \in NumericCols THEN NumCell(0) ELSE StrCell(S_Unknown)

FillNa(d) ==
    [cols |-> d.cols,
     rows |-> [i \in 1..Len(d.rows) |->
                 [c \in d.cols |->
                     IF c \in ExpectedCols /\ d.rows[i][c].kind = "nan"
                     THEN FillDefault(c) ELSE d.rows[i][c]]]]

(* pd.to_numeric(errors="coerce"): the text of a number parses, the rest is NaN. *)
Digits == <<"0", "1", "2", "3", "4", "5", "6", "7", "8", "9">>
IsDigit(ch) == \E k \in 1..10 : Digits[k] = ch
DigitVal(ch) == (CHOOSE k \in 1..10 : Digits[k] = ch) - 1

RECURSIVE NatVal(_)
NatVal(t) == IF t = <<>> THEN 0
             ELSE 10 * NatVal(SubSeq(t, 1, Len(t) - 1)) + DigitVal(t[Len(t)])

AllDigits(t) == t # <<>> /\ \A k \in 1..Len(t) : IsDigit(t[k])

DotAt(t) == IF \E k \in 1..Len(t) : t[k] = "."
            THEN (CHOOSE k \in 1..Len(t) : t[k] = "." /\ \A j \in 1..(k-1) : t[j] # ".")
            ELSE 0

(* An unsigned decimal, "12", "12.5", "12." or ".5": [ok, val].  The values *)
(* are held in halves, so the fraction modelled is none, "0" or "5".        *)
ParseUnsigned(t) ==
    LET d == DotAt(t) IN
    IF d = 0
    THEN [ok |-> AllDigits(t), val |-> IF AllDigits(t) THEN 2 * NatVal(t) ELSE 0]
    ELSE LET w == SubSeq(t, 1, d - 1)
             f == SubSeq(t, d + 1, Len(t))
             good == /\ w = <<>> \/ AllDigits(w)
                     /\ f \in {<<>>, <<"0">>, <<"5">>}
                     /\ ~(w = <<>> /\ f = <<>>)
         IN [ok |-> good,
             val |-> IF good THEN 2 * NatVal(w) + (IF f = <<"5">> THEN 1 ELSE 0) ELSE 0]

ParseNumber(t) ==
    IF t # <<>> /\ t[1] = "-"
    THEN LET p == ParseUnsigned(Tail(t)) IN [ok |-> p.ok, val |-> 0 - p.val]
    ELSE ParseUnsigned(t)

ToNumericCell(x) ==
    CASE x.kind = "num" -> x
      [] x.kind = "nan" -> NaN
      [] OTHER -> IF ParseNumber(x.txt).ok THEN NumCell(ParseNumber(x.txt).val) ELSE NaN

(* Lines 30, 33 without the trailing .fillna(0) *)
CoerceColumn_nofill(d, col) ==
    [cols |-> d.cols,
     rows |-> [i \in 1..Len(d.rows) |->
                 [c \in d.cols |->
                     IF c = col THEN ToNumericCell(d.rows[i][c]) ELSE d.rows[i][c]]]]

(* df[c] = pd.to_numeric(df[c], errors="coerce").fillna(0) *)
CoerceColumn(d, col) ==
    [cols |-> d.cols,
     rows |-> [i \in 1..Len(d.rows) |->
                 [c \in d.cols |->
                     IF c = col
                     THEN (LET x == ToNumericCell(d.rows[i][c])
                           IN IF x.kind = "nan" THEN NumCell(0) ELSE x)
                     ELSE d.rows[i][c]]]]

CleanFrame(d) ==
    LET a == FillNa(d)
        b == IF "Marks" \in a.cols THEN CoerceColumn(a, "Marks") ELSE a
        c == IF "Attendance" \in b.cols THEN CoerceColumn(b, "Attendance") ELSE b
    IN c

-----------------------------------------------------------------------------
(* Series helpers *)

(* Series.unique(), as the set of its values *)
Unique(d, col) == {d.rows[i][col].txt : i \in 1..Len(d.rows)}

SeqMin(ns) == CHOOSE m \in {ns[i] : i \in 1..Len(ns)} : \A j \in 1..Len(ns) : m <= ns[j]
SeqMax(ns) == CHOOSE m \in {ns[i] : i \in 1..Len(ns)} : \A j \in 1..Len(ns) : m >= ns[j]

Nums(rows, col) == [i \in 1..Len(rows) |-> rows[i][col].num]

RECURSIVE SeqSum(_)
SeqSum(ns) == IF ns = <<>> THEN 0 ELSE ns[1] + SeqSum(Tail(ns))

(* Python's int() of a float held in halves: truncation toward zero *)
IntOf(h) == IF h >= 0 THEN h \div 2 ELSE 0 - ((0 - h) \div 2)

(* An int as a number in halves *)
Num(n) == 2 * n

(* frame[mask]: the rows whose mask entry is true, in the frame's order *)
RECURSIVE BoolIndex(_, _)
BoolIndex(rows, mask) ==
    IF rows = <<>> THEN <<>>
    ELSE (IF mask[1] THEN <<rows[1]>> ELSE <<>>) \o BoolIndex(Tail(rows), Tail(mask))

TheOne(S) == CHOOSE x \in S : TRUE

-----------------------------------------------------------------------------
(* The script, one action per statement group *)

NoFrame == [cols |-> {}, rows |-> <<>>]

(* What a run starts from: no script variable is bound, nothing is drawn. *)
Fresh ==
    /\ df = NoFrame
    /\ selected_course = <<>>
    /\ selected_cities = {}
    /\ marks_filter = 0
    /\ gender_option = <<>>
    /\ filtered_df = <<>>
    /\ msgs = {}
    /\ metrics = {}
    /\ result = {}
    /\ shown = {}
    /\ charts = {}
    /\ ran = {}

NoUi == [course |-> {}, cities |-> {}, marks |-> {}, gender |-> {},
         query |-> <<>>, button |-> "none"]

(* Line 16 dropped: the error is shown and the script goes on *)
Load_nostop ==
    /\ pc = "load"
    /\ ran' = ran \cup {"load"}
    /\ pc' = "clean"
    /\ msgs' = (IF file.exists THEN msgs ELSE msgs \cup {"file_not_found"})
    /\ df' = ReadCsv(file)
    /\ UNCHANGED <<file, ui, selected_course, selected_cities, marks_filter,
                   gender_option, filtered_df, metrics, result, shown, charts>>

(* Lines 12-16: read the file, or show the error and st.stop(). *)
Load ==
    /\ pc = "load"
    /\ ran' = ran \cup {"load"}
    /\ IF file.exists
       THEN /\ df' = ReadCsv(file)
            /\ pc' = "clean"
            /\ msgs' = msgs
       ELSE /\ msgs' = msgs \cup {"file_not_found"}
            /\ pc' = "stopped"
            /\ df' = df
    /\ UNCHANGED <<file, ui, selected_course, selected_cities, marks_filter,
                   gender_option, filtered_df, metrics, result, shown, charts>>

(* Lines 18-38: fillna, numeric coercion, the overview table. *)
Clean ==
    /\ pc = "clean"
    /\ ran' = ran \cup {"clean"}
    /\ df' = CleanFrame(df)
    /\ pc' = "sidebar"
    /\ UNCHANGED <<file, ui, selected_course, selected_cities, marks_filter,
                   gender_option, filtered_df, msgs, metrics, result, shown, charts>>

(* Lines 46, 50: the options the widgets offer *)
CourseOptions(d) == {S_All} \cup (IF "Course" \in d.cols THEN Unique(d, "Course") ELSE {})
CityOptions(d) == IF "City" \in d.cols THEN Unique(d, "City") ELSE {}
GenderOptions == {S_All, S_Male, S_Female, S_Unknown}

(* Lines 55-56: the slider's bounds; int(NaN) raises on a table with no rows *)
SliderRaises(d) == "Marks" \in d.cols /\ d.rows = <<>>
MinMarks(d) == IntOf(SeqMin(Nums(d.rows, "Marks")))
MaxMarks(d) == IntOf(SeqMax(Nums(d.rows, "Marks")))

(* Line 57: the slider's value, its default being min_marks.  st.slider is *)
(* taken to accept min_marks = max_marks.                                   *)
SliderValue(d) == IF ui.marks = {} THEN MinMarks(d) ELSE TheOne(ui.marks)

(* Lines 43-65: the sidebar widgets return the browser's values or their defaults. *)
Sidebar ==
    /\ pc = "sidebar"
    /\ ran' = ran \cup {"sidebar"}
    /\ selected_course' = (IF ui.course = {} THEN S_All ELSE TheOne(ui.course))
    /\ selected_cities' = (IF ui.cities = {} THEN CityOptions(df) ELSE TheOne(ui.cities))
    /\ IF SliderRaises(df)
       THEN /\ pc' = "exception"
            /\ UNCHANGED <<marks_filter, gender_option>>
       ELSE /\ marks_filter' = (IF "Marks" \in df.cols THEN Num(SliderValue(df)) ELSE 0)
            /\ gender_option' = (IF "Gender" \in df.cols /\ ui.gender # {}
                                 THEN TheOne(ui.gender) ELSE S_All)
            /\ pc' = "filter"
    /\ UNCHANGED <<file, ui, df, filtered_df, msgs, metrics, result, shown, charts>>

(* Line 76 with > where the script has >= *)
MarksMask_strict(rows, least) == [i \in 1..Len(rows) |-> rows[i]["Marks"].num > least]

(* Lines 71, 74, 76, 79: the boolean masks *)
CourseMask(rows, course) == [i \in 1..Len(rows) |-> rows[i]["Course"].txt = course]
CityMask(rows, cities) == [i \in 1..Len(rows) |-> rows[i]["City"].txt \in cities]
MarksMask(rows, least) == [i \in 1..Len(rows) |-> rows[i]["Marks"].num >= least]
GenderMask(rows, gender) == [i \in 1..Len(rows) |-> rows[i]["Gender"].txt = gender]

(* Line 73 dropped: isin applied to an empty selection as well *)
AfterCities_always(rows, cities) == BoolIndex(rows, CityMask(rows, cities))

(* Lines 68-79: each step narrows the result of the one before. *)
AfterCourse(d, course) ==
    IF course # S_All THEN BoolIndex(d.rows, CourseMask(d.rows, course)) ELSE d.rows
AfterCities(rows, cities) ==
    IF cities # {} THEN BoolIndex(rows, CityMask(rows, cities)) ELSE rows
AfterMarks(rows, least) == BoolIndex(rows, MarksMask(rows, least))
AfterGender(rows, gender) ==
    IF gender # S_All THEN BoolIndex(rows, GenderMask(rows, gender)) ELSE rows

ApplyTo(d, course, cities, least, gender) ==
    AfterGender(AfterMarks(AfterCities(AfterCourse(d, course), cities), least), gender)

(* filtered_df["X"] raises KeyError when the column X is not in the frame. *)
FilterRaises(d, course, cities, gender) ==
    \/ course # S_All /\ "Course" \notin d.cols
    \/ cities # {} /\ "City" \notin d.cols
    \/ "Marks" \notin d.cols
    \/ gender # S_All /\ "Gender" \notin d.cols

(* Lines 71-79 assigning to df where the script assigns to filtered_df *)
ApplyFilters_inplace ==
    /\ pc = "filter"
    /\ ran' = ran \cup {"filter"}
    /\ "Marks" \in df.cols
    /\ filtered_df' = ApplyTo(df, selected_course, selected_cities, marks_filter, gender_option)
    /\ df' = [df EXCEPT !.rows = ApplyTo(df, selected_course, selected_cities,
                                          marks_filter, gender_option)]
    /\ pc' = "metrics"
    /\ UNCHANGED <<file, ui, selected_course, selected_cities, marks_filter,
                   gender_option, msgs, metrics, result, shown, charts>>

(* Lines 67-85 *)
ApplyFilters ==
    /\ pc = "filter"
    /\ ran' = ran \cup {"filter"}
    /\ IF FilterRaises(df, selected_course, selected_cities, gender_option)
       THEN /\ pc' = "exception"
            /\ filtered_df' = filtered_df
       ELSE /\ filtered_df' = ApplyTo(df, selected_course, selected_cities,
                                      marks_filter, gender_option)
            /\ pc' = "metrics"
    /\ UNCHANGED <<file, ui, df, selected_course, selected_cities, marks_filter,
                   gender_option, msgs, metrics, result, shown, charts>>

(* Series.mean(), kept exact as sum and count *)
Mean(rows, col) == [sum |-> SeqSum(Nums(rows, col)), n |-> Len(rows)]
MeanGt(m, k) == m.sum > Num(k) * m.n
MeanGe(m, k) == m.sum >= Num(k) * m.n

ExcellentAbove == 85
GoodFrom == 70

(* Line 100 with >= where the script has > *)
Tier_ge(avg) ==
    IF MeanGe(avg, 85) THEN "excellent"
    ELSE IF MeanGe(avg, 70) THEN "good"
    ELSE "needs_improvement"

(* Lines 100-105 *)
Tier(avg) ==
    IF MeanGt(avg, ExcellentAbove) THEN "excellent"
    ELSE IF MeanGe(avg, GoodFrom) THEN "good"
    ELSE "needs_improvement"

(* Lines 90-107 *)
Metrics ==
    /\ pc = "metrics"
    /\ ran' = ran \cup {"metrics"}
    /\ IF filtered_df # <<>>
       THEN LET avg_marks == Mean(filtered_df, "Marks")
                avg_attendance == IF "Attendance" \in df.cols
                                  THEN Mean(filtered_df, "Attendance")
                                  ELSE [sum |-> 0, n |-> 1]
            IN /\ metrics' = {[avg_marks |-> avg_marks,
                               avg_attendance |-> avg_attendance,
                               total_students |-> Len(filtered_df)]}
               /\ msgs' = msgs \cup {Tier(avg_marks)}
       ELSE /\ msgs' = msgs \cup {"no_match"}
            /\ metrics' = metrics
    /\ pc' = "search"
    /\ UNCHANGED <<file, ui, df, selected_course, selected_cities, marks_filter,
                   gender_option, filtered_df, result, shown, charts>>

-----------------------------------------------------------------------------
(* Series.str.contains(pat, case=False, na=False): pat is a regular         *)
(* expression (regex=True is the default), compiled with re.IGNORECASE and  *)
(* searched in each name.  The patterns modelled are those made of letters, *)
(* ".", "*", "(" and "[".                                                    *)

Upper == <<"A", "B", "D", "N">>
Lower == <<"a", "b", "d", "n">>
Fold(ch) == IF \E k \in 1..Len(Upper) : Upper[k] = ch
            THEN Lower[CHOOSE k \in 1..Len(Upper) : Upper[k] = ch]
            ELSE ch
FoldStr(t) == [i \in 1..Len(t) |-> Fold(t[i])]

(* re.compile raises: an unterminated "(" or "[", or a "*" with nothing to repeat *)
RegexRaises(p) ==
    \/ \E i \in 1..Len(p) : p[i] = "(" /\ \A j \in (i+1)..Len(p) : p[j] # ")"
    \/ \E i \in 1..Len(p) : p[i] = "[" /\ \A j \in (i+1)..Len(p) : p[j] # "]"
    \/ \E i \in 1..Len(p) : p[i] = "*" /\ (i = 1 \/ p[i-1] = "*")

AtomMatches(a, ch) == a = "." \/ Fold(a) = Fold(ch)

RECURSIVE MatchHere(_, _)
MatchHere(p, s) ==
    IF p = <<>> THEN TRUE
    ELSE IF Len(p) >= 2 /\ p[2] = "*"
    THEN \E k \in 0..Len(s) :
            /\ \A j \in 1..k : AtomMatches(p[1], s[j])
            /\ MatchHere(SubSeq(p, 3, Len(p)), SubSeq(s, k + 1, Len(s)))
    ELSE /\ s # <<>>
         /\ AtomMatches(p[1], s[1])
         /\ MatchHere(Tail(p), Tail(s))

RegexSearch(p, s) == \E i \in 1..(Len(s) + 1) : MatchHere(p, SubSeq(s, i, Len(s)))

NameMask(rows, pat) == [i \in 1..Len(rows) |-> RegexSearch(pat, rows[i]["Name"].txt)]

(* Lines 112-120 *)
Search ==
    /\ pc = "search"
    /\ ran' = ran \cup {"search"}
    /\ LET name_search == ui.query IN
       IF name_search # <<>> /\ "Name" \in df.cols
       THEN IF RegexRaises(name_search)
            THEN /\ pc' = "exception"
                 /\ UNCHANGED <<result, msgs>>
            ELSE /\ result' = {BoolIndex(df.rows, NameMask(df.rows, name_search))}
                 /\ msgs' = (IF BoolIndex(df.rows, NameMask(df.rows, name_search)) # <<>>
                             THEN msgs ELSE msgs \cup {"no_student_found"})
                 /\ pc' = "buttons"
       ELSE /\ pc' = "buttons"
            /\ UNCHANGED <<result, msgs>>
    /\ UNCHANGED <<file, ui, df, selected_course, selected_cities, marks_filter,
                   gender_option, filtered_df, metrics, shown, charts>>

TopAbove == 90

(* Line 130 with >= where the script has > *)
TopMask_ge(rows) == [i \in 1..Len(rows) |-> rows[i]["Marks"].num >= 2 * 90]

(* Line 130 *)
TopMask(rows) == [i \in 1..Len(rows) |-> rows[i]["Marks"].num > Num(TopAbove)]
TopStudents(d) == BoolIndex(d.rows, TopMask(d.rows))

(* Lines 125-139: a button is true in the run its click started. *)
Buttons ==
    /\ pc = "buttons"
    /\ ran' = ran \cup {"buttons"}
    /\ IF ui.button = "top"
       THEN IF "Marks" \in df.cols
            THEN /\ shown' = shown \cup {[table |-> "top", rows |-> TopStudents(df)]}
                 /\ msgs' = msgs
            ELSE /\ msgs' = msgs \cup {"marks_not_available"}
                 /\ shown' = shown
       ELSE IF ui.button = "all"
       THEN /\ shown' = shown \cup {[table |-> "all", rows |-> df.rows]}
            /\ msgs' = msgs
       ELSE UNCHANGED <<shown, msgs>>
    /\ pc' = "charts"
    /\ UNCHANGED <<file, ui, df, selected_course, selected_cities, marks_filter,
                   gender_option, filtered_df, metrics, result, charts>>

(* Lines 144-163 *)
Charts ==
    /\ pc = "charts"
    /\ ran' = ran \cup {"charts"}
    /\ charts' =
          (IF "Marks" \in df.cols /\ "Name" \in df.cols /\ filtered_df # <<>>
           THEN {"bar"} ELSE {})
          \cup (IF "Attendance" \in df.cols /\ "Name" \in df.cols /\ filtered_df # <<>>
                THEN {"line"} ELSE {})
          \cup (IF "Marks" \in df.cols THEN {"hist"} ELSE {})
    /\ pc' = "done"
    /\ UNCHANGED <<file, ui, df, selected_course, selected_cities, marks_filter,
                   gender_option, filtered_df, msgs, metrics, result, shown>>

RunStep == Load \/ Clean \/ Sidebar \/ ApplyFilters \/ Metrics \/ Search \/ Buttons \/ Charts

-----------------------------------------------------------------------------
(* Widget events: the browser keeps the new value and the script runs again *)
(* from its first line.  A button that was true is false in the next run.   *)
(* A widget takes events once the last run has drawn it; a run that ended   *)
(* in an exception leaves the widgets drawn before it on the page.          *)

Settled == pc \in {"done", "exception"}

Rerun(newUi) ==
    /\ Settled
    /\ ui' = newUi
    /\ pc' = "load"
    /\ df' = NoFrame
    /\ selected_course' = <<>>
    /\ selected_cities' = {}
    /\ marks_filter' = 0
    /\ gender_option' = <<>>
    /\ filtered_df' = <<>>
    /\ msgs' = {}
    /\ metrics' = {}
    /\ result' = {}
    /\ shown' = {}
    /\ charts' = {}
    /\ ran' = {}
    /\ UNCHANGED file

(* A widget set back to its default returns what an untouched widget returns: *)
(* the browser's record keeps only the values that differ from the default.   *)
Held(v, default) == IF v = default THEN {} ELSE {v}

ChangeCourse ==
    /\ Settled
    /\ "sidebar" \in ran
    /\ \E c \in CourseOptions(df) :
        /\ c # selected_course
        /\ Rerun([ui EXCEPT !.course = Held(c, S_All), !.button = "none"])

ChangeCities ==
    /\ Settled
    /\ "sidebar" \in ran
    /\ \E cs \in SUBSET CityOptions(df) :
        /\ cs # selected_cities
        /\ Rerun([ui EXCEPT !.cities = Held(cs, CityOptions(df)), !.button = "none"])

ChangeMarks ==
    /\ Settled
    /\ "filter" \in ran
    /\ "Marks" \in df.cols
    /\ \E m \in MinMarks(df)..MaxMarks(df) :
        /\ Num(m) # marks_filter
        /\ Rerun([ui EXCEPT !.marks = Held(m, MinMarks(df)), !.button = "none"])

ChangeGender ==
    /\ Settled
    /\ "filter" \in ran
    /\ "Gender" \in df.cols
    /\ \E g \in GenderOptions :
        /\ g # gender_option
        /\ Rerun([ui EXCEPT !.gender = Held(g, S_All), !.button = "none"])

EnterQuery(Q) ==
    /\ Settled
    /\ "search" \in ran
    /\ \E q \in Q :
        /\ q # ui.query
        /\ Rerun([ui EXCEPT !.query = q, !.button = "none"])

PressTop == "charts" \in ran /\ Rerun([ui EXCEPT !.button = "top"])
PressAll == "charts" \in ran /\ Rerun([ui EXCEPT !.button = "all"])

-----------------------------------------------------------------------------
(* The files and the inputs the specifications draw from *)

N_Anya == <<"A", "n", "y", "a">>
N_Dan == <<"D", "a", "n">>
N_Bob == <<"B", "o", "b">>
K_CS == <<"C", "S">>
K_EE == <<"E", "E">>
P_Pune == <<"P", "u", "n", "e">>
P_Agra == <<"A", "g", "r", "a">>

MkRow(name, course, city, gender, marks, att) ==
    [Name |-> name, Course |-> course, City |-> city, Gender |-> gender,
     Marks |-> marks, Attendance |-> att]

MkFile(cols, rows) ==
    [exists |-> TRUE, cols |-> cols,
     rows |-> [i \in 1..Len(rows) |-> [c \in cols |-> rows[i][c]]]]

NoFile == [exists |-> FALSE, cols |-> {}, rows |-> <<>>]

SeqsUpTo(S, n) == UNION {[1..k -> S] : k \in 0..n}

FirstRun(files) ==
    /\ file \in files
    /\ ui = NoUi
    /\ pc = "load"
    /\ Fresh

(* Spec: a fixed table under every subset of the expected columns, and the *)
(* absent file; every widget is used.                                       *)
BaseRows ==
    <<MkRow(N_Anya, K_CS, P_Pune, S_Female, <<"9", "1">>, <<"8", "0">>),
      MkRow(N_Dan, K_EE, P_Agra, S_Male, <<"9", "0">>, <<"7", "5">>),
      MkRow(N_Bob, K_CS, P_Agra, S_Male, <<"8", "9", ".", "5">>, <<>>)>>

FilesMain ==
    {NoFile} \cup {MkFile(cols, SubSeq(BaseRows, 1, k)) :
                      cols \in (SUBSET ExpectedCols) \ {{}}, k \in 1..MaxRows}

FewQueries == {<<>>, <<"a", "n">>, <<"z">>}

Init == FirstRun(FilesMain)

Next ==
    \/ RunStep
    \/ ChangeCourse
    \/ ChangeCities
    \/ ChangeMarks
    \/ ChangeGender
    \/ EnterQuery(FewQueries)
    \/ PressTop
    \/ PressAll

Spec == Init /\ [][Next]_vars

-----------------------------------------------------------------------------
(* SpecFilter: tables that vary in the four filtered columns, with negative, *)
(* zero and fractional marks; the four filter widgets are used.              *)

FilterRows ==
    {MkRow(N_Bob, k, p, gm[1], gm[2], <<"8", "0">>) :
        k \in {K_CS, K_EE}, p \in {P_Pune, P_Agra},
        gm \in {<<S_Female, <<"-", "1", ".", "5">>>>, <<S_Male, <<"0">>>>}}
    \cup {MkRow(N_Bob, K_CS, P_Pune, S_Male, <<"1">>, <<"8", "0">>),
          MkRow(N_Bob, K_EE, P_Agra, S_Female, <<"1">>, <<"8", "0">>)}

FilesFilter == {MkFile(ExpectedCols, t) : t \in SeqsUpTo(FilterRows, MaxRows)}

InitFilter == FirstRun(FilesFilter)

NextFilter == RunStep \/ ChangeCourse \/ ChangeCities \/ ChangeMarks \/ ChangeGender

SpecFilter == InitFilter /\ [][NextFilter]_vars

(* SpecSearch: tables that vary in the names, after a first row with other *)
(* marks; the query box is used.                                            *)

SearchRows ==
    {MkRow(n, K_CS, P_Pune, S_Male, <<"8", "0">>, <<"8", "0">>) : n \in {N_Anya, N_Dan, N_Bob}}

FirstSearchRow == MkRow(N_Dan, K_EE, P_Agra, S_Female, <<"9", "1">>, <<"7", "5">>)

FilesSearch ==
    {MkFile(ExpectedCols, <<FirstSearchRow>> \o t) : t \in SeqsUpTo(SearchRows, MaxRows) \ {<<>>}}

QueryChars == {"a", "N", ".", "*", "(", "["}
Queries == SeqsUpTo(QueryChars, MaxQueryLen)

InitSearch == FirstRun(FilesSearch)

NextSearch == RunStep \/ EnterQuery(Queries)

SpecSearch == InitSearch /\ [][NextSearch]_vars

(* SpecMetrics: tables whose marks sit on and around 70, 85 and 90; the *)
(* gender radio and the two buttons are used.                            *)

MaxMetricsRows == 3

MetricsRows ==
    {MkRow(N_Bob, K_CS, P_Pune, gm[1], gm[2], <<"8", "0">>) :
        gm \in {<<S_Female, <<"6", "9", ".", "5">>>>, <<S_Male, <<"7", "0">>>>,
                <<S_Male, <<"8", "5">>>>, <<S_Female, <<"8", "6">>>>,
                <<S_Male, <<"9", "0">>>>, <<S_Female, <<"9", "1">>>>}}

FilesMetrics == {MkFile(ExpectedCols, t) : t \in SeqsUpTo(MetricsRows, MaxMetricsRows)}

InitMetrics == FirstRun(FilesMetrics)

NextMetrics == RunStep \/ ChangeGender \/ PressTop \/ PressAll

SpecMetrics == InitMetrics /\ [][NextMetrics]_vars

(* SpecLoad: tables whose cells are empty, unparseable or numbers, and a   *)
(* fixed table under every subset of the columns; the script runs once.    *)

LoadStrings ==
    {<<N_Bob, K_CS, P_Pune, S_Male>>, <<<<>>, <<>>, <<>>, <<>>>>, <<N_Dan, <<>>, P_Agra, <<>>>>}
LoadMarks == {<<>>, <<"a", "b", "c">>, <<"7">>, <<"-", "1", ".", "5">>, <<"9", "0", ".", "0">>}
LoadAttendance == {<<>>, <<"x">>, <<"8", "0">>}

LoadRows ==
    {MkRow(st[1], st[2], st[3], st[4], m, a) :
        st \in LoadStrings, m \in LoadMarks, a \in LoadAttendance}

HoleyRows ==
    <<MkRow(<<>>, K_CS, <<>>, S_Male, <<"a", "b", "c">>, <<>>),
      MkRow(N_Dan, <<>>, P_Agra, <<>>, <<>>, <<"x">>)>>

FilesLoad ==
    {MkFile(ExpectedCols, t) : t \in SeqsUpTo(LoadRows, MaxRows)}
    \cup {MkFile(cols, HoleyRows) : cols \in (SUBSET ExpectedCols) \ {{}}}

InitLoad == FirstRun(FilesLoad)

NextLoad == RunStep

SpecLoad == InitLoad /\ [][NextLoad]_vars

(* SpecStart: the files of Spec with the two buttons in use; a script run *)
(* that has started runs on to its end.                                    *)
NextStart == RunStep \/ PressTop \/ PressAll

SpecStart == Init /\ [][NextStart]_vars /\ WF_vars(RunStep)

-----------------------------------------------------------------------------
(* What the claims speak of *)

(* The statement group has run to its end in this run. *)
CleanDone == pc = "sidebar" \/ "sidebar" \in ran
FilterDone == pc = "metrics" \/ "metrics" \in ran
MetricsDone == pc = "search" \/ "search" \in ran
ButtonsDone == pc = "charts" \/ "charts" \in ran

(* The base table: the file as loaded and cleaned *)
Base == CleanFrame(ReadCsv(file))

MarksSum(rows) == SeqSum(Nums(rows, "Marks"))

-----------------------------------------------------------------------------
(* A record passes the criteria the sidebar returned. *)
Passes(r) ==
    /\ selected_course = S_All \/ r["Course"].txt = selected_course
    /\ selected_cities = {} \/ r["City"].txt \in selected_cities
    /\ r["Marks"].num >= marks_filter
    /\ gender_option = S_All \/ r["Gender"].txt = gender_option

(* C1: the filtered view is exactly the subsequence of the base table, in   *)
(* its order, of the records with (course = "All" or Course = course) and   *)
(* (cities empty or City in cities) and Marks >= minMarks and               *)
(* (gender = "All" or Gender = gender).                                      *)
C1_FilterIsExactSubsequence ==
    FilterDone => /\ df = Base
                  /\ filtered_df = SelectSeq(Base.rows, Passes)

(* All four predicates are active; one record passes and one is dropped. *)
C1_Witness ==
    /\ pc = "done"
    /\ selected_course # S_All
    /\ selected_cities # {} /\ selected_cities # CityOptions(df)
    /\ marks_filter > Num(MinMarks(df))
    /\ gender_option # S_All
    /\ Len(df.rows) = 2
    /\ filtered_df = <<df.rows[2]>>
    /\ df.rows[1] # df.rows[2]

(* The identity criteria of the specification *)
IdentityCriteria ==
    /\ selected_course = S_All
    /\ selected_cities = {}
    /\ marks_filter = 0
    /\ gender_option = S_All

(* C2 as stated: the identity criteria (course "All", no city, minimum marks *)
(* 0, gender "All") return all of the base table unchanged.                  *)
C2_IdentityReturnsAll ==
    (FilterDone /\ IdentityCriteria) => filtered_df = Base.rows

(* C2 as amended: the identity criteria return, in order, exactly the records *)
(* whose Marks are not negative; so all of the table when none is negative.   *)
(* A record with Marks of at least 0 *)
NonNegative(r) == r["Marks"].num >= 0

C2_IdentityKeepsNonNegative ==
    (FilterDone /\ IdentityCriteria) =>
        /\ filtered_df = SelectSeq(Base.rows, NonNegative)
        /\ (\A i \in 1..Len(Base.rows) : NonNegative(Base.rows[i])) => filtered_df = Base.rows

(* The identity criteria on two different records, one with Marks exactly 0. *)
C2_Witness ==
    /\ pc = "done"
    /\ IdentityCriteria
    /\ Len(df.rows) = 2
    /\ df.rows[1] # df.rows[2]
    /\ df.rows[1]["Marks"].num = 0
    /\ df.rows[2]["Marks"].num > 0
    /\ filtered_df = df.rows

(* C3: with the file present and any of the expected columns missing, a run *)
(* never reaches an exception.                                               *)
C3_MissingColumnsNeverRaise ==
    (file.exists /\ file.cols # ExpectedCols) => pc # "exception"

(* The four performance messages *)
TierMsgs == {"excellent", "good", "needs_improvement", "no_match"}

(* C4: exactly one tier is shown; it is NoMatch iff the view is empty, else *)
(* Excellent iff mean > 85, Good iff 70 <= mean <= 85, NeedsImprovement     *)
(* otherwise.                                                                *)
C4_TierOfMean ==
    MetricsDone =>
        LET n == Len(filtered_df)
            s == MarksSum(filtered_df)
        IN /\ Cardinality(msgs \cap TierMsgs) = 1
           /\ "no_match" \in msgs <=> n = 0
           /\ "excellent" \in msgs <=> (n > 0 /\ s > 2 * 85 * n)
           /\ "good" \in msgs <=> (n > 0 /\ s >= 2 * 70 * n /\ s <= 2 * 85 * n)
           /\ "needs_improvement" \in msgs <=> (n > 0 /\ s < 2 * 70 * n)
           /\ n > 0 => metrics = {[avg_marks |-> [sum |-> s, n |-> n],
                                   avg_attendance |-> Mean(filtered_df, "Attendance"),
                                   total_students |-> n]}
           /\ n = 0 => metrics = {}

(* A filtered view, smaller than the table, whose mean is exactly 85: Good. *)
C4_Witness ==
    /\ pc = "done"
    /\ filtered_df # <<>>
    /\ Len(filtered_df) < Len(df.rows)
    /\ MarksSum(filtered_df) = 2 * 85 * Len(filtered_df)
    /\ MinMarks(df) < MaxMarks(df)
    /\ "good" \in msgs

(* q occurs in name as it is written, letter case folded *)
ContainsFolded(name, q) ==
    \E i \in 1..(Len(name) - Len(q) + 1) :
        FoldStr(SubSeq(name, i, i + Len(q) - 1)) = FoldStr(q)

LiteralMatch(r) == ContainsFolded(r["Name"].txt, ui.query)

(* C5: an empty query performs no search; a query that is not empty yields *)
(* the records whose Name contains it literally, letter case ignored, and   *)
(* never an error.                                                           *)
C5_LiteralSearch ==
    "search" \in ran =>
        /\ pc # "exception"
        /\ ui.query = <<>> => result = {}
        /\ ui.query # <<>> => result = {SelectSeq(Base.rows, LiteralMatch)}

(* The number, in halves, each cell text of the specification stands for *)
ExpectedNumber(t) ==
    CASE t = <<"7">> -> 14
      [] t = <<"8", "0">> -> 160
      [] t = <<"-", "1", ".", "5">> -> 0 - 3
      [] t = <<"9", "0", ".", "0">> -> 180
      [] t \in {<<>>, <<"x">>, <<"a", "b", "c">>} -> 0

(* C6: after the load every cell of Marks and Attendance is a number, the   *)
(* parsed one or 0; an empty Name, Course, City or Gender is "Unknown"; the  *)
(* rows are those of the source, in its order; no cell makes the load fail.  *)
C6_LoadCleans ==
    /\ (file.exists /\ pc = "exception") => CleanDone
    /\ CleanDone =>
        /\ df.cols = file.cols
        /\ Len(df.rows) = Len(file.rows)
        /\ \A i \in 1..Len(file.rows) : \A c \in file.cols :
              LET t == file.rows[i][c] IN
              IF c \in NumericCols
              THEN df.rows[i][c] = NumCell(ExpectedNumber(t))
              ELSE df.rows[i][c] = StrCell(IF t = <<>> THEN S_Unknown ELSE t)

(* A load of an unparseable and a fractional Marks cell and an empty Name. *)
C6_Witness ==
    /\ pc = "filter"
    /\ Len(file.rows) = 2
    /\ file.cols = ExpectedCols
    /\ file.rows[1]["Marks"] = <<"a", "b", "c">> /\ df.rows[1]["Marks"] = NumCell(0)
    /\ file.rows[2]["Marks"] = <<"-", "1", ".", "5">> /\ df.rows[2]["Marks"] = NumCell(0 - 3)
    /\ file.rows[1]["Name"] = <<>> /\ df.rows[1]["Name"] = StrCell(S_Unknown)
    /\ file.rows[2]["Attendance"] = <<>> /\ df.rows[2]["Attendance"] = NumCell(0)

(* Nothing but the load has run and nothing but the error is shown. *)
C7_Halted ==
    /\ ran \subseteq {"load"}
    /\ pc \in {"load", "stopped"}
    /\ df = NoFrame /\ filtered_df = <<>>
    /\ metrics = {} /\ result = {} /\ shown = {} /\ charts = {}
    /\ pc = "stopped" => (msgs = {"file_not_found"} /\ ran = {"load"})
    /\ pc = "load" => msgs = {}

(* C7: with the file absent the run shows the error and stops; no later     *)
(* statement group runs, and nothing runs after the stop.                    *)
C7_SourceNotFoundHalts ==
    /\ [](~file.exists => C7_Halted)
    /\ [][(~file.exists /\ pc = "stopped") => UNCHANGED vars]_vars
    /\ ((~file.exists) ~> (pc = "stopped"))

C7_Witness ==
    /\ ~file.exists
    /\ pc = "stopped"
    /\ "file_not_found" \in msgs

(* A record with Marks above 90 *)
Above90(r) == r["Marks"].num > 2 * 90

(* C8: the top-performers view is the subsequence of the base table with    *)
(* Marks > 90, whatever the filter criteria; show-all is the base table.     *)
C8_TopPerformers ==
    ButtonsDone =>
        /\ ui.button = "top" => shown = {[table |-> "top", rows |-> SelectSeq(Base.rows, Above90)]}
        /\ ui.button = "all" => shown = {[table |-> "all", rows |-> Base.rows]}
        /\ ui.button = "none" => shown = {}

(* Marks 90 and 91 in the table, a gender filter active, the top button pressed *)
C8_Witness ==
    /\ pc = "done"
    /\ ui.button = "top"
    /\ gender_option = S_Male
    /\ Len(df.rows) = 3
    /\ df.rows[1]["Marks"].num = 2 * 90
    /\ df.rows[2]["Marks"].num = 2 * 91
    /\ df.rows[3]["Marks"].num = 2 * 85
    /\ shown = {[table |-> "top", rows |-> <<df.rows[2]>>]}
    /\ filtered_df = <<df.rows[1], df.rows[3]>>

(* What the four sidebar widgets return, from the file and the browser alone *)
WidgetCourse == IF ui.course = {} THEN S_All ELSE TheOne(ui.course)
WidgetCities == IF ui.cities = {} THEN CityOptions(Base) ELSE TheOne(ui.cities)
WidgetMarks == IF ui.marks = {} THEN MinMarks(Base) ELSE TheOne(ui.marks)
WidgetGender == IF ui.gender = {} THEN S_All ELSE TheOne(ui.gender)
WidgetPasses(r) ==
    /\ WidgetCourse = S_All \/ r["Course"].txt = WidgetCourse
    /\ WidgetCities = {} \/ r["City"].txt \in WidgetCities
    /\ r["Marks"].num >= 2 * WidgetMarks
    /\ WidgetGender = S_All \/ r["Gender"].txt = WidgetGender
WidgetMatch(r) == RegexSearch(ui.query, r["Name"].txt)

(* C9: after any widget events the base table is the table as loaded and    *)
(* cleaned, and what a finished run shows is computed from it and from the   *)
(* widgets' current values only.                                             *)
C9_ViewsFromBaseAndWidgets ==
    /\ CleanDone => df = Base
    /\ pc = "done" =>
        LET view == SelectSeq(Base.rows, WidgetPasses) IN
        /\ filtered_df = view
        /\ msgs \cap TierMsgs = {IF view = <<>> THEN "no_match" ELSE Tier(Mean(view, "Marks"))}
        /\ result = (IF ui.query # <<>> /\ "Name" \in Base.cols
                     THEN {SelectSeq(Base.rows, WidgetMatch)} ELSE {})
        /\ shown = (IF ui.button = "top" THEN {[table |-> "top", rows |-> TopStudents(Base)]}
                    ELSE IF ui.button = "all" THEN {[table |-> "all", rows |-> Base.rows]}
                    ELSE {})

(* A finished run after events on the course, the marks, the gender, the *)
(* query and a button.                                                    *)
C9_Witness ==
    /\ pc = "done"
    /\ ui.course # {} /\ ui.marks # {} /\ ui.gender # {} /\ ui.cities # {}
    /\ ui.query # <<>>
    /\ ui.button = "top"
    /\ filtered_df # <<>>
    /\ filtered_df # df.rows

(* C10: on the first run, with all columns present, the default widget     *)
(* state is computed without error and the filtered view is the whole base  *)
(* table.                                                                    *)
C10_DefaultShowsAll ==
    (ui = NoUi /\ file.exists /\ file.cols = ExpectedCols) =>
        /\ pc # "exception"
        /\ FilterDone => filtered_df = Base.rows

====
